---- MODULE Spec2Model ----
(***************************************************************************)
(* Model of scripts/build.py: the build script of AI SDK C++.              *)
(*                                                                         *)
(* main() is a straight-line pipeline                                      *)
(*   display configuration -> clean -> ensure build dir -> configure ->    *)
(*   compile -> export compile commands -> results panel                   *)
(* and run_command() is the only helper.  The file system, the two cmake   *)
(* processes and os.cpu_count() are the environment: their outcomes are    *)
(* chosen nondeterministically where the code consults them.               *)
(*                                                                         *)
(* Two specifications are given.                                           *)
(*   Spec          the script as shipped, started at the entry of main().  *)
(*                 Line 80 evaluates `config_table.add.add_row(...)`;      *)
(*                 rich's Table has no attribute `add`, so every run       *)
(*                 raises AttributeError there and ends with status 1.     *)
(*   SpecPipeline  the step logic of lines 88-177 taken on its own:        *)
(*                 control is placed at line 88 with the locals that       *)
(*                 lines 66-68 compute.  The shipped script does not get   *)
(*                 there (see Spec); this specification is what the        *)
(*                 claims about the individual steps are exercised on.     *)
(***************************************************************************)
EXTENDS Integers, Sequences, FiniteSets, TLC

\* ------------------------------------------------------------------------
\* Bounds of the model
\* ------------------------------------------------------------------------
MaxJobs == 2     \* --jobs ranges over -1..MaxJobs (and unset)
MaxCpu  == 2     \* os.cpu_count() ranges over 1..MaxCpu (and None)
MaxExit == 2     \* process return codes range over 0..MaxExit

\* ------------------------------------------------------------------------
\* Values
\* ------------------------------------------------------------------------
NoneVal == "None"                      \* None where a str or Path is expected
NoInt   == <<>>                        \* None where an int is expected
Some(n) == <<n>>                       \* an int n where None is possible

Digit == <<"0", "1", "2", "3", "4", "5", "6", "7", "8", "9">>

RECURSIVE StrNat(_)
StrNat(n) == IF n < 10 THEN Digit[n + 1]
             ELSE StrNat(n \div 10) \o Digit[(n % 10) + 1]

\* str(n) for an int n
Str(n) == IF n < 0 THEN "-" \o StrNat(0 - n) ELSE StrNat(n)

\* Python truthiness of an Optional[int]
Truthy(v) == v # NoInt /\ v[1] # 0

\* a or b
Or(a, b) == IF Truthy(a) THEN a ELSE b

RECURSIVE Join(_, _)
\* sep.join(xs)
Join(sep, xs) == IF xs = <<>> THEN ""
                 ELSE IF Len(xs) = 1 THEN xs[1]
                 ELSE xs[1] \o sep \o Join(sep, Tail(xs))

\* str.title() on the two values click lets through for --mode: the first
\* character is upper-cased, the following ones are lower-cased.
ModeChars == [debug   |-> <<"d", "e", "b", "u", "g">>,
              release |-> <<"r", "e", "l", "e", "a", "s", "e">>]
Upper == [d |-> "D", e |-> "E", b |-> "B", u |-> "U", g |-> "G",
          r |-> "R", l |-> "L", a |-> "A", s |-> "S"]
\* Variant: mode.upper(), as the configuration table shows it (line 79).
TitleUpper(mode) ==
    LET cs == ModeChars[mode]
    IN  Join("", [i \in 1..Len(cs) |-> Upper[cs[i]]])

Title(mode) ==
    LET cs == ModeChars[mode]
    IN  Join("", [i \in 1..Len(cs) |-> IF i = 1 THEN Upper[cs[i]] ELSE cs[i]])

\* pathlib's `/`
PathJoin(a, b) == a \o "/" \o b

ProjectRoot == "/proj"                            \* script_dir.parent
BuildDir    == PathJoin(ProjectRoot, "build")     \* project_root / "build"

Modes      == {"debug", "release"}
JobsInputs == {NoInt} \cup {Some(n) : n \in -1..MaxJobs}
CpuCounts  == {NoInt} \cup {Some(n) : n \in 1..MaxCpu}
ExitCodes  == 0..MaxExit

\* What click hands to main()
Configs == [mode : Modes, tests : BOOLEAN, clean : BOOLEAN, verbose : BOOLEAN,
            export_compile_commands : BOOLEAN, jobs : JobsInputs]

\* What a spawned process can do: fail to start (OSError from subprocess.run)
\* or run to an exit code with some captured output.
Procs == {[spawned |-> FALSE, returncode |-> 0, stdout |-> "", stderr |-> ""]}
         \cup [spawned : {TRUE}, returncode : ExitCodes,
               stdout : {"", "out\n"}, stderr : {"", "err\n"}]

VARIABLES
    pc,          \* position in main(), or how the process ended
    config,      \* the arguments of main()
    bdKind,      \* build dir on disk: "absent", "dir" or "file"
    bdOld,       \* content that was in the build dir before the run is there
    ccBuild,     \* content of build/compile_commands.json, or NoneVal
    ccRoot,      \* content of <root>/compile_commands.json, or NoneVal
    calls,       \* the processes spawned so far, in order
    console,     \* what was printed: a sequence of <<label, text>>
    exitStatus,  \* exit status of the script, NoInt while it runs
    report,      \* artifact paths listed by the results panel, <<>> before
    hist,        \* history: initial file system, and what the script did
    ret          \* what run_command returned to a caller that keeps it

vars == <<pc, config, bdKind, bdOld, ccBuild, ccRoot, calls, console,
          exitStatus, report, hist, ret>>

\* ------------------------------------------------------------------------
\* run_command (lines 32-48)
\* ------------------------------------------------------------------------
\* str.strip() on the outputs a process of the model can produce
Strip(s) == IF s = "out\n" THEN "out" ELSE IF s = "err\n" THEN "err" ELSE s

\* repr() of a list of str
ReprList(xs) ==
    "[" \o Join(", ", [i \in 1..Len(xs) |-> "'" \o xs[i] \o "'"]) \o "]"

\* str() of subprocess.CalledProcessError(returncode, cmd)
CalledProcessErrorStr(cmd, returncode) ==
    "Command '" \o ReprList(cmd) \o "' returned non-zero exit status "
        \o Str(returncode) \o "."

\* Variant: subprocess.run(..., check=True), whatever the caller asked for.
RaisesAlways(check, proc) == proc.returncode # 0

\* Variant: subprocess.run called without check (nothing is ever raised).
RaisesNever(check, proc) == FALSE

\* subprocess.run(..., check=check) raises CalledProcessError exactly when
\* check is set and the return code is not 0 (line 37).
Raises(check, proc) == check /\ proc.returncode # 0

\* An exception nobody catches: the interpreter prints the traceback and the
\* process ends with status 1.
UncaughtStatus == 1

\* click's standalone mode exits with 0 once main() has returned.
SuccessStatus == 0

\* Variant: sys.exit() without a status, which is a successful exit.
ExitOnErrorZero == SuccessStatus

\* The status run_command hands to sys.exit (line 48).
ExitOnError == 1

\* Variant: the except branch prints the command only and drops the streams.
ErrorLinesTerse(cmd, proc) ==
    <<  <<"Error running command:", Join(" ", cmd)>>  >>

\* Lines 43-47: what the except branch prints.
ErrorLines(cmd, proc) ==
    <<  <<"Error running command:", CalledProcessErrorStr(cmd, proc.returncode)>>  >>
    \o (IF proc.stderr # "" THEN << <<"Error output:", proc.stderr>> >> ELSE <<>>)
    \o (IF proc.stdout # "" THEN << <<"Output:", proc.stdout>> >> ELSE <<>>)

\* run_command(cmd, cwd, check) against a process that behaves as proc.
\*   kind "return": the CompletedProcess is returned (line 40)
\*   kind "exit"  : sys.exit(status) (line 48)
\*   kind "raise" : subprocess.run raised something that is not a
\*                  CalledProcessError; run_command does not catch it
RunCommand(cmd, check, proc) ==
    LET running == << <<"Running:", Join(" ", cmd)>> >>
    IN  IF ~proc.spawned
        THEN [kind |-> "raise", printed |-> running, status |-> NoneVal,
              result |-> NoneVal]
        ELSE IF Raises(check, proc)
        THEN [kind |-> "exit", printed |-> running \o ErrorLines(cmd, proc),
              status |-> ExitOnError, result |-> NoneVal]
        ELSE [kind |-> "return",
              printed |-> running \o
                  (IF Strip(proc.stdout) # ""
                   THEN << <<"stdout:", Strip(proc.stdout)>> >> ELSE <<>>),
              status |-> NoneVal,
              result |-> [returncode |-> proc.returncode,
                          stdout |-> proc.stdout, stderr |-> proc.stderr]]

\* ------------------------------------------------------------------------
\* main (lines 63-177)
\* ------------------------------------------------------------------------
\* jobs or os.cpu_count() or 4 (lines 83 and 133)
DefaultJobs == 4

\* Variant: the last operand is dropped, leaving 0 when nothing is known.
ResolveJobsNoDefault(jobs, cpu) == Or(Or(jobs, cpu), Some(0))[1]

ResolveJobs(jobs, cpu) == Or(Or(jobs, cpu), Some(DefaultJobs))[1]

\* Variant: --clean removes the build directory without looking for it first.
CleanUnguarded == config.clean

\* Variant: the build directory is removed whether or not --clean was given.
CleanAlways == bdKind # "absent"

\* Line 91: the condition of the clean step.
CleanWanted == config.clean /\ bdKind # "absent"

\* Lines 106-116
CmakeArgs ==
    << "cmake", ProjectRoot, "-G", "Ninja",
       "-DCMAKE_BUILD_TYPE=" \o Title(config.mode),
       "-DBUILD_TESTS=" \o (IF config.tests THEN "ON" ELSE "OFF"),
       "-DBUILD_EXAMPLES=ON" >>
    \o (IF config.export_compile_commands
        THEN <<"-DCMAKE_EXPORT_COMPILE_COMMANDS=ON">> ELSE <<>>)

\* Variant: --verbose is appended after the job count.
BuildArgsVerboseLast(cpu) ==
    <<"cmake", "--build", ".">>
    \o <<"--parallel", Str(ResolveJobs(config.jobs, cpu))>>
    \o (IF config.verbose THEN <<"--verbose">> ELSE <<>>)

\* Lines 129-133
BuildArgs(cpu) ==
    <<"cmake", "--build", ".">>
    \o (IF config.verbose THEN <<"--verbose">> ELSE <<>>)
    \o <<"--parallel", Str(ResolveJobs(config.jobs, cpu))>>

\* Lines 162-174: the artifact paths the results panel lists.
ReportPaths ==
    << BuildDir \o "/libai-sdk-cpp.a", BuildDir \o "/examples/" >>
    \o (IF config.tests THEN << PathJoin(BuildDir, "tests") >> ELSE <<>>)

\* The process ends because an exception reached the top level.
Crash(line) ==
    /\ pc' = "crashed"
    /\ exitStatus' = Some(UncaughtStatus)
    /\ console' = Append(console, <<"Traceback:", line>>)

\* State common to both specifications: any configuration, any file system.
InitCommon ==
    /\ config \in Configs
    /\ bdKind \in {"absent", "dir", "file"}
    /\ bdOld \in (IF bdKind = "dir" THEN BOOLEAN ELSE {FALSE})
    /\ ccBuild \in (IF bdKind = "dir" THEN {NoneVal, "old"} ELSE {NoneVal})
    /\ ccRoot \in {NoneVal, "stale"}
    /\ calls = <<>>
    /\ console = <<>>
    /\ exitStatus = NoInt
    /\ report = <<>>
    /\ ret = <<>>
    /\ hist = [bdKind0 |-> bdKind, bdOld0 |-> bdOld, ccBuild0 |-> ccBuild,
               ccRoot0 |-> ccRoot, rmtree |-> FALSE, fsFailed |-> "",
               copied |-> FALSE, cpuAsked |-> FALSE, cpu |-> NoInt]

\* Entry of main(): lines 66-68 have no effect on the state.
Init == InitCommon /\ pc = "display"

\* Lines 73-86.  Line 80 reads `config_table.add`, which rich's Table does
\* not have: AttributeError, before the table is printed.
DisplayConfig ==
    /\ pc = "display"
    /\ Crash("line 80: AttributeError: 'Table' object has no attribute 'add'")
    /\ UNCHANGED <<config, bdKind, bdOld, ccBuild, ccRoot, calls, report, hist, ret>>

\* Control at line 88, with main()'s locals bound.  The shipped script
\* raises at line 80 first (DisplayConfig); the steps below are exercised from
\* here.
InitPipeline == InitCommon /\ pc = "clean"

\* Variant: shutil.rmtree(build_dir, ignore_errors=True).
RmtreeIgnored ==
    /\ hist' = [hist EXCEPT !.rmtree = TRUE, !.fsFailed = "rmtree"]
    /\ pc' = "ensure"
    /\ UNCHANGED <<console, exitStatus>>

\* shutil.rmtree is called without ignore_errors or onerror (line 94): what it
\* raises leaves main().
RmtreeRaised ==
    /\ hist' = [hist EXCEPT !.rmtree = TRUE, !.fsFailed = "rmtree"]
    /\ Crash("line 94: shutil.rmtree raised")

\* Lines 91-96: shutil.rmtree(build_dir) when --clean is given and the path
\* exists.  rmtree raises on a path that is not a directory, and may raise
\* part-way through a directory (an entry it may not unlink).
Clean ==
    /\ pc = "clean"
    /\ IF CleanWanted
       THEN \/ /\ bdKind = "dir"
               /\ bdKind' = "absent"
               /\ bdOld' = FALSE
               /\ ccBuild' = NoneVal
               /\ hist' = [hist EXCEPT !.rmtree = TRUE]
               /\ console' = Append(console, <<"ok:", "Build directory cleaned">>)
               /\ pc' = "ensure"
               /\ UNCHANGED exitStatus
            \/ /\ bdKind' = bdKind
               /\ bdOld' \in (IF bdKind = "dir" THEN {bdOld, FALSE} ELSE {FALSE})
               /\ ccBuild' \in (IF bdKind = "dir" THEN {ccBuild, NoneVal} ELSE {NoneVal})
               /\ RmtreeRaised
       ELSE /\ pc' = "ensure"
            /\ UNCHANGED <<bdKind, bdOld, ccBuild, hist, console, exitStatus>>
    /\ UNCHANGED <<config, ccRoot, calls, report, ret>>

\* Variant: the build directory is not created.
EnsureSkipped ==
    /\ pc = "ensure"
    /\ pc' = "configure"
    /\ UNCHANGED <<config, bdKind, bdOld, ccBuild, ccRoot, calls, console,
                   exitStatus, report, hist, ret>>

\* Line 98: build_dir.mkdir(exist_ok=True).  An existing directory is left
\* alone, an existing file raises FileExistsError, and creating the
\* directory can fail.
Ensure ==
    /\ pc = "ensure"
    /\ \/ /\ bdKind = "dir"
          /\ pc' = "configure"
          /\ UNCHANGED <<bdKind, hist, console, exitStatus>>
       \/ /\ bdKind = "absent"
          /\ bdKind' = "dir"
          /\ pc' = "configure"
          /\ UNCHANGED <<hist, console, exitStatus>>
       \/ /\ bdKind # "dir"
          /\ hist' = [hist EXCEPT !.fsFailed = "mkdir"]
          /\ Crash("line 98: Path.mkdir raised")
          /\ UNCHANGED bdKind
    /\ UNCHANGED <<config, bdOld, ccBuild, ccRoot, calls, report, ret>>

\* The record kept of one run_command call made by main(): what was passed,
\* what the working directory was and held when the process was started, and
\* how the process behaved.
Call(step, argv, proc) ==
    [step |-> step, argv |-> argv, cwd |-> BuildDir, cwdKind |-> bdKind,
     cwdOld |-> bdOld, cwdCc |-> ccBuild, proc |-> proc]

\* Variant: a failed command is run again.
AfterRunRetry(r, done, next) ==
    IF r.kind = "return"
    THEN /\ pc' = next
         /\ console' = console \o r.printed \o << <<"ok:", done>> >>
         /\ UNCHANGED exitStatus
    ELSE /\ pc' = pc
         /\ console' = console \o r.printed
         /\ UNCHANGED exitStatus

\* Variant: the except branch of run_command reports and carries on.
AfterRunNoExit(r, done, next) ==
    IF r.kind \in {"return", "exit"}
    THEN /\ pc' = next
         /\ console' = console \o r.printed \o << <<"ok:", done>> >>
         /\ UNCHANGED exitStatus
    ELSE /\ pc' = "crashed"
         /\ console' = console \o r.printed \o << <<"Traceback:", "subprocess.run raised">> >>
         /\ exitStatus' = Some(UncaughtStatus)

\* What main() does with the outcome r of run_command, `done` being the
\* message printed after the call when it returned.
AfterRun(r, done, next) ==
    IF r.kind = "return"
    THEN /\ pc' = next
         /\ console' = console \o r.printed \o << <<"ok:", done>> >>
         /\ UNCHANGED exitStatus
    ELSE IF r.kind = "exit"
    THEN /\ pc' = "failed"
         /\ console' = console \o r.printed
         /\ exitStatus' = Some(r.status)
    ELSE /\ pc' = "crashed"
         /\ console' = console \o r.printed \o << <<"Traceback:", "subprocess.run raised">> >>
         /\ exitStatus' = Some(UncaughtStatus)

\* Lines 103-121: cmake configure, in the build directory.  The tool may
\* write build/compile_commands.json.
Configure ==
    /\ pc = "configure"
    /\ \E proc \in Procs, gen \in BOOLEAN :
          /\ gen => proc.spawned
          /\ calls' = Append(calls, Call("configure", CmakeArgs, proc))
          /\ ccBuild' = IF gen THEN "gen" ELSE ccBuild
          /\ AfterRun(RunCommand(CmakeArgs, TRUE, proc),
                      "CMake configuration completed", "compile")
    /\ UNCHANGED <<config, bdKind, bdOld, ccRoot, report, hist, ret>>

\* Lines 126-138: cmake --build, in the build directory.  os.cpu_count() is
\* consulted only when jobs is None or 0.
Compile ==
    /\ pc = "compile"
    /\ \E proc \in Procs,
          cpu \in (IF Truthy(config.jobs) THEN {NoInt} ELSE CpuCounts) :
          /\ hist' = [hist EXCEPT !.cpuAsked = ~Truthy(config.jobs), !.cpu = cpu]
          /\ calls' = Append(calls, Call("compile", BuildArgs(cpu), proc))
          /\ AfterRun(RunCommand(BuildArgs(cpu), TRUE, proc),
                      "Build completed successfully!", "export")
    /\ UNCHANGED <<config, bdKind, bdOld, ccBuild, ccRoot, report, ret>>

\* Variant: the copy is made whenever the file is there.
ExportWantedAlways == ccBuild # NoneVal

\* Variant: the copy is attempted without looking for the file first.
ExportWantedUnchecked == config.export_compile_commands

\* Lines 143 and 146: the copy is made when --export-compile-commands was
\* given and build/compile_commands.json exists.
ExportWanted == config.export_compile_commands /\ ccBuild # NoneVal

\* Variant: an existing destination is kept.
Copy2KeepExisting(src, dst) == IF dst # NoneVal THEN dst ELSE src

\* shutil.copy2(src, dst): the content of dst after the call, given the
\* contents of the two files before it (dst is created or overwritten).
Copy2(src, dst) == src

\* Lines 143-148: copy build/compile_commands.json to the project root when
\* asked to and the file is there; otherwise nothing is done or printed.
\* The project root is taken to be writable: copy2 does not raise.
Export ==
    /\ pc = "export"
    /\ IF ExportWanted
       THEN /\ ccRoot' = Copy2(ccBuild, ccRoot)
            /\ hist' = [hist EXCEPT !.copied = TRUE]
            /\ console' = Append(console, <<"ok:", "Exported compile commands to "
                             \o PathJoin(ProjectRoot, "compile_commands.json")>>)
       ELSE UNCHANGED <<ccRoot, hist, console>>
    /\ pc' = "report"
    /\ UNCHANGED <<config, bdKind, bdOld, ccBuild, calls, report, exitStatus, ret>>

\* Lines 153-177: the results panel; main() returns and click exits.
Report ==
    /\ pc = "report"
    /\ report' = ReportPaths
    /\ console' = Append(console, <<"panel:", "Build Results">>)
    /\ pc' = "done"
    /\ exitStatus' = Some(SuccessStatus)
    /\ UNCHANGED <<config, bdKind, bdOld, ccBuild, ccRoot, calls, hist, ret>>

Next == DisplayConfig

Spec == Init /\ [][Next]_vars

NextPipeline == Clean \/ Ensure \/ Configure \/ Compile \/ Export \/ Report

SpecPipeline == InitPipeline /\ [][NextPipeline]_vars

\* run_command on its own: called once, by a caller that keeps the value it
\* returns, with either argument list of main(), either value of check and
\* any process behaviour.
InitRunner == InitCommon /\ pc = "call"

RunnerCall ==
    /\ pc = "call"
    /\ \E check \in BOOLEAN, proc \in Procs, cmd \in {CmakeArgs, BuildArgs(NoInt)} :
          LET r == RunCommand(cmd, check, proc) IN
          /\ calls' = Append(calls, Call("call", cmd, proc))
          /\ console' = console \o r.printed
          /\ ret' = << [check |-> check, kind |-> r.kind, result |-> r.result] >>
          /\ pc' = IF r.kind = "return" THEN "returned"
                   ELSE IF r.kind = "exit" THEN "failed" ELSE "crashed"
          /\ exitStatus' = IF r.kind = "return" THEN exitStatus
                           ELSE IF r.kind = "exit" THEN Some(r.status)
                           ELSE Some(UncaughtStatus)
    /\ UNCHANGED <<config, bdKind, bdOld, ccBuild, ccRoot, report, hist>>

NextRunner == RunnerCall

SpecRunner == InitRunner /\ [][NextRunner]_vars

\* ------------------------------------------------------------------------
\* Properties
\* ------------------------------------------------------------------------
Ended == pc \in {"done", "failed", "crashed"}

\* The process of call c did not exit with 0 (or did not start).
CallFailed(c) == ~c.proc.spawned \/ c.proc.returncode # 0

\* The process of call c ran and exited with a code other than 0.
ExitedNonZero(c) == c.proc.spawned /\ c.proc.returncode # 0

Printed(line) == \E k \in DOMAIN console : console[k] = line

\* C1: a compile invocation is always preceded by a configure invocation
\* that exited with 0, and once a configure process has exited non-zero (or
\* could not be started) no compile invocation is made in that run.
C1_ConfigureBeforeCompile ==
    /\ \A j \in DOMAIN calls :
          calls[j].step = "compile" =>
             \E i \in 1..(j - 1) :
                /\ calls[i].step = "configure"
                /\ ~CallFailed(calls[i])
    /\ (\E i \in DOMAIN calls : calls[i].step = "configure" /\ CallFailed(calls[i]))
          => ~ \E j \in DOMAIN calls : calls[j].step = "compile"

\* C1 witness: the run is over, configure exited with code 2, no compile.
C1_Witness ==
    /\ pc = "failed"
    /\ Len(calls) = 1
    /\ calls[1].step = "configure"
    /\ calls[1].proc.returncode = 2

\* C2: when a process run with check=True exits with a code c other than 0,
\* the run ends there as a failure: the error line printed is the one that
\* names c (and no other code), every captured stream that is not empty is
\* printed in full, the exit status is not 0 and no results panel is shown.
C2_FailureCarriesDiagnostics ==
    \A i \in DOMAIN calls :
       ExitedNonZero(calls[i]) =>
          LET c == calls[i] IN
          /\ i = Len(calls)
          /\ pc = "failed"
          /\ exitStatus # NoInt /\ exitStatus # Some(0)
          /\ report = <<>>
          /\ Printed(<<"Error running command:",
                       CalledProcessErrorStr(c.argv, c.proc.returncode)>>)
          /\ \A k \in DOMAIN console, other \in ExitCodes \ {c.proc.returncode} :
                console[k] # <<"Error running command:",
                               CalledProcessErrorStr(c.argv, other)>>
          /\ c.proc.stderr # "" => Printed(<<"Error output:", c.proc.stderr>>)
          /\ c.proc.stdout # "" => Printed(<<"Output:", c.proc.stdout>>)

\* C2 witness: compile exited with code 2 with both streams captured.
C2_Witness ==
    /\ pc = "failed"
    /\ Len(calls) = 2
    /\ calls[2].step = "compile"
    /\ calls[2].proc.returncode = 2
    /\ calls[2].proc.stderr # ""
    /\ calls[2].proc.stdout # ""

\* Nothing the run depends on went wrong: no file system call raised and no
\* process that was started failed.
NothingFailed ==
    /\ hist.fsFailed = ""
    /\ \A i \in DOMAIN calls : ~CallFailed(calls[i])

\* C3: a run in which no file system operation fails and no process exits
\* non-zero ends at the results panel: build directory present, configure
\* then compile invoked once each, the panel shown, exit status 0.
C3_CleanEnvironmentSucceeds ==
    (Ended /\ NothingFailed) =>
        /\ pc = "done"
        /\ exitStatus = Some(0)
        /\ report # <<>>
        /\ bdKind = "dir"
        /\ Len(calls) = 2
        /\ calls[1].step = "configure"
        /\ calls[2].step = "compile"

\* C4: once the compile process has failed the run is over at that step:
\* nothing was copied to the project root, whose compile_commands.json is
\* as it was, and no results panel is shown; and whenever any step has
\* failed the run is over with no panel and a non-zero exit status.
C4_NothingAfterFailure ==
    /\ \A i \in DOMAIN calls :
          (calls[i].step = "compile" /\ CallFailed(calls[i])) =>
              /\ i = Len(calls)
              /\ pc \in {"failed", "crashed"}
              /\ ~hist.copied
              /\ ccRoot = hist.ccRoot0
              /\ report = <<>>
    /\ ~NothingFailed =>
          /\ pc \in {"failed", "crashed"}
          /\ report = <<>>
          /\ exitStatus # NoInt /\ exitStatus # Some(0)
          /\ \A i \in DOMAIN calls : CallFailed(calls[i]) => i = Len(calls)
          /\ hist.fsFailed # "" => calls = <<>>

\* C4 witness: compile exited non-zero in a run that was asked to export and
\* has a compile_commands.json waiting in the build directory.
C4_Witness ==
    /\ pc = "failed"
    /\ Len(calls) = 2
    /\ calls[2].step = "compile"
    /\ calls[2].proc.returncode # 0
    /\ config.export_compile_commands
    /\ ccBuild # NoneVal
    /\ ccRoot # ccBuild

\* C5: when --clean is given, the build directory exists and rmtree raises,
\* the run ends there with the exception: no process was spawned, no panel
\* is shown, and the exit status is not 0.
C5_CleanFailureAborts ==
    hist.fsFailed = "rmtree" =>
        /\ config.clean
        /\ hist.bdKind0 # "absent"
        /\ pc = "crashed"
        /\ calls = <<>>
        /\ report = <<>>
        /\ exitStatus = Some(UncaughtStatus)

\* C5 witness: rmtree raised on an existing build directory.
C5_Witness ==
    /\ hist.fsFailed = "rmtree"
    /\ hist.bdKind0 = "dir"
    /\ config.clean
    /\ pc = "crashed"

\* C6: without --clean, a build directory that was there before the run is
\* never removed by the script, and what it held before the run is still
\* there, at every point of the run.
C6_NoCleanKeepsContents ==
    (~config.clean /\ hist.bdKind0 = "dir") =>
        /\ ~hist.rmtree
        /\ bdKind = "dir"
        /\ bdOld = hist.bdOld0
        /\ hist.ccBuild0 # NoneVal => ccBuild # NoneVal

\* C6 witness: a run without --clean went past the clean step and ended with
\* the old contents of the build directory in place.
C6_Witness ==
    /\ ~config.clean
    /\ hist.bdKind0 = "dir"
    /\ hist.bdOld0
    /\ bdOld
    /\ Ended
    /\ calls # <<>>

\* Configure and then compile were invoked, once each, and both exited 0.
BothToolsSucceeded ==
    /\ Len(calls) = 2
    /\ calls[1].step = "configure" /\ ~CallFailed(calls[1])
    /\ calls[2].step = "compile" /\ ~CallFailed(calls[2])

\* C7: with --export-compile-commands, both tools having exited 0 and no
\* compile_commands.json in the build directory, the run goes on to the
\* results panel and exit status 0, nothing is copied or reported as
\* exported, and the project root's compile_commands.json is as it was.
C7_MissingFileIsSkipped ==
    (config.export_compile_commands /\ BothToolsSucceeded /\ ccBuild = NoneVal) =>
        /\ pc \in {"export", "report", "done"}
        /\ Ended => (exitStatus = Some(0) /\ report # <<>>)
        /\ ~hist.copied
        /\ ccRoot = hist.ccRoot0
        /\ \A k \in DOMAIN console : console[k][1] # "Traceback:"
        /\ ~Printed(<<"ok:", "Exported compile commands to "
                       \o PathJoin(ProjectRoot, "compile_commands.json")>>)

\* C7 witness: such a run has ended, with an older root-level file in place.
C7_Witness ==
    /\ pc = "done"
    /\ config.export_compile_commands
    /\ ccBuild = NoneVal
    /\ ccRoot = "stale"

\* C8: with --export-compile-commands, both tools having exited 0 and a
\* compile_commands.json in the build directory, once the export step is
\* passed (and so after the run) the project root's compile_commands.json
\* has the content of the build directory's file, whatever it was before.
C8_ExportOverwritesRootCopy ==
    (config.export_compile_commands /\ BothToolsSucceeded /\ ccBuild # NoneVal) =>
        /\ pc \in {"export", "report", "done"}
        /\ pc # "export" => (hist.copied /\ ccRoot = ccBuild)

\* C8 witness: the run has ended and a differing root-level file has been
\* replaced.
C8_Witness ==
    /\ pc = "done"
    /\ config.export_compile_commands
    /\ hist.ccRoot0 = "stale"
    /\ ccBuild # NoneVal
    /\ ccRoot = ccBuild

\* C9: exit status 0 and the results panel come together and only at the
\* end of a run in which nothing failed, the build directory is there, both
\* tools were invoked and exited 0, and a requested export of an existing
\* file was made; and a run in which a step failed has ended with a
\* non-zero exit status.
C9_ZeroStatusOnlyAfterAllSteps ==
    /\ (exitStatus = Some(0) \/ report # <<>>) =>
          /\ pc = "done"
          /\ exitStatus = Some(0)
          /\ report # <<>>
          /\ NothingFailed
          /\ bdKind = "dir"
          /\ BothToolsSucceeded
          /\ (config.export_compile_commands /\ ccBuild # NoneVal)
                => (hist.copied /\ ccRoot = ccBuild)
    /\ ~NothingFailed =>
          /\ Ended
          /\ exitStatus # NoInt
          /\ exitStatus[1] # 0

\* C9 witness: a run with --clean and --export-compile-commands ended with
\* status 0 after removing the directory and copying the file.
C9_Witness ==
    /\ pc = "done"
    /\ exitStatus = Some(0)
    /\ hist.rmtree
    /\ hist.copied

\* Decimal numerals of the positive integers the model can pass.
PositiveNumerals == {Str(k) : k \in 1..(MaxJobs + MaxCpu + 10)}

\* C10: when --jobs is not given, the value after --parallel in the compile
\* invocation is the numeral of a positive integer: of what os.cpu_count()
\* returned when that is a number, and "4" when it returned None.
C10_UnsetJobsResolvePositive ==
    \A i \in DOMAIN calls :
       (calls[i].step = "compile" /\ config.jobs = NoInt) =>
          LET a == calls[i].argv
              n == a[Len(a)]
          IN  /\ a[Len(a) - 1] = "--parallel"
              /\ hist.cpuAsked
              /\ n = (IF hist.cpu # NoInt THEN Str(hist.cpu[1]) ELSE "4")
              /\ n \in PositiveNumerals

\* C10 witness: compile was invoked with --jobs unset and no CPU count
\* available, and was passed 4.
C10_Witness ==
    /\ config.jobs = NoInt
    /\ Len(calls) = 2
    /\ calls[2].step = "compile"
    /\ hist.cpu = NoInt
    /\ calls[2].argv[Len(calls[2].argv)] = "4"

\* C11: every configure invocation is made in the build directory with
\* exactly cmake, the project root, -G Ninja, the build type Debug or
\* Release after the mode, BUILD_TESTS ON or OFF after --tests,
\* BUILD_EXAMPLES=ON, and then the compile-commands export definition
\* exactly when --export-compile-commands was given.
C11_ConfigureArguments ==
    \A i \in DOMAIN calls :
       calls[i].step = "configure" =>
          /\ calls[i].cwd = "/proj/build"
          /\ calls[i].argv =
                << "cmake", "/proj", "-G", "Ninja",
                   IF config.mode = "debug" THEN "-DCMAKE_BUILD_TYPE=Debug"
                                            ELSE "-DCMAKE_BUILD_TYPE=Release",
                   IF config.tests THEN "-DBUILD_TESTS=ON" ELSE "-DBUILD_TESTS=OFF",
                   "-DBUILD_EXAMPLES=ON" >>
                \o (IF config.export_compile_commands
                    THEN <<"-DCMAKE_EXPORT_COMPILE_COMMANDS=ON">> ELSE <<>>)

\* C11 witness: configure was invoked for a release build with tests and
\* the export of compile commands.
C11_Witness ==
    /\ calls # <<>>
    /\ calls[1].step = "configure"
    /\ config.mode = "release"
    /\ config.tests
    /\ config.export_compile_commands
    /\ Len(calls[1].argv) = 8

\* The number main() is to pass after --parallel: --jobs when it is given
\* and not 0, else the CPU count when there is one, else 4.
ExpectedJobs ==
    IF config.jobs # NoInt /\ config.jobs # Some(0) THEN config.jobs[1]
    ELSE IF hist.cpu # NoInt THEN hist.cpu[1]
    ELSE 4

\* C12: every compile invocation is made in the build directory with
\* exactly cmake --build ., then --verbose exactly when --verbose was given,
\* then --parallel and the numeral of the resolved job count.
C12_CompileArguments ==
    \A i \in DOMAIN calls :
       calls[i].step = "compile" =>
          /\ calls[i].cwd = "/proj/build"
          /\ calls[i].argv =
                <<"cmake", "--build", ".">>
                \o (IF config.verbose THEN <<"--verbose">> ELSE <<>>)
                \o <<"--parallel", Str(ExpectedJobs)>>

\* C12 witness: compile was invoked with --verbose and --jobs 2.
C12_Witness ==
    /\ Len(calls) = 2
    /\ calls[2].step = "compile"
    /\ config.verbose
    /\ config.jobs = Some(2)
    /\ calls[2].argv[Len(calls[2].argv)] = "2"

\* The calls made for one step of main().
CallsOf(step) == {i \in DOMAIN calls : calls[i].step = step}

\* C13: in a run the configure tool is spawned at most once and the compile
\* tool at most once, whether they succeed or fail, and nothing else is
\* spawned.
C13_NoRetry ==
    /\ Cardinality(CallsOf("configure")) <= 1
    /\ Cardinality(CallsOf("compile")) <= 1
    /\ Len(calls) <= 2
    /\ Ended => Cardinality(CallsOf("configure")) + Cardinality(CallsOf("compile"))
                   = Len(calls)

\* C13 witness: the run is over after a single configure attempt that
\* exited with code 1.
C13_Witness ==
    /\ Ended
    /\ Len(calls) = 1
    /\ calls[1].step = "configure"
    /\ calls[1].proc.spawned
    /\ calls[1].proc.returncode = 1

\* C14: when run_command is called with check=False and the process exits
\* with a code other than 0, the call returns: the caller holds the return
\* code and both captured streams, the program has not exited and the error
\* lines of the except branch were not printed.
C14_UncheckedFailureReturns ==
    (ret # <<>> /\ ~ret[1].check /\ ExitedNonZero(calls[Len(calls)])) =>
        LET p == calls[Len(calls)].proc IN
        /\ pc = "returned"
        /\ exitStatus = NoInt
        /\ ret[1].kind = "return"
        /\ ret[1].result = [returncode |-> p.returncode,
                            stdout |-> p.stdout, stderr |-> p.stderr]
        /\ \A k \in DOMAIN console : console[k][1] # "Error running command:"

\* C14 witness: run_command(check=False) has returned a process that exited
\* with code 2 and wrote to stderr.
C14_Witness ==
    /\ pc = "returned"
    /\ ret # <<>>
    /\ ~ret[1].check
    /\ calls[1].proc.returncode = 2
    /\ calls[1].proc.stderr # ""

\* C15: in a run started with the build directory absent or a directory,
\* whenever configure or compile is started its working directory is the
\* build directory and that directory exists, --clean or not.
C15_WorkingDirectoryExists ==
    hist.bdKind0 \in {"absent", "dir"} =>
        \A i \in DOMAIN calls :
           /\ calls[i].cwd = BuildDir
           /\ calls[i].cwdKind = "dir"

\* C15 witness: compile was started in a run with --clean that had removed
\* an existing build directory.
C15_Witness ==
    /\ config.clean
    /\ hist.bdKind0 = "dir"
    /\ hist.rmtree
    /\ Len(calls) = 2
    /\ calls[2].cwdKind = "dir"

\* C16: with --clean and an existing build directory, when configure is
\* started the directory has been removed and made again and holds nothing
\* of what it held before the run; with --clean and no build directory, no
\* removal is attempted and the directory is there once line 98 is passed
\* (configure is about to start or has been started).
C16_CleanRecreatesDirectory ==
    /\ (config.clean /\ hist.bdKind0 = "dir") =>
          \A i \in CallsOf("configure") :
             /\ hist.rmtree
             /\ calls[i].cwdKind = "dir"
             /\ ~calls[i].cwdOld
             /\ calls[i].cwdCc = NoneVal
    /\ (config.clean /\ hist.bdKind0 = "absent") =>
          /\ ~hist.rmtree
          /\ (pc = "configure" \/ calls # <<>>) => bdKind = "dir"

\* C16 witness: configure was started in a run with --clean whose build
\* directory held older content and an older compile_commands.json.
C16_Witness ==
    /\ config.clean
    /\ hist.bdKind0 = "dir"
    /\ hist.bdOld0
    /\ hist.ccBuild0 = "old"
    /\ calls # <<>>
    /\ calls[1].step = "configure"
    /\ ~calls[1].cwdOld

C18_NoExportLeavesRootAlone ==
    ~config.export_compile_commands =>
        /\ ccRoot = hist.ccRoot0
        /\ ~hist.copied
        /\ \A i \in CallsOf("configure") :
              /\ Len(calls[i].argv) = 7
              /\ \A k \in DOMAIN calls[i].argv :
                    calls[i].argv[k] \notin {"-DCMAKE_EXPORT_COMPILE_COMMANDS=ON",
                                             "-DCMAKE_EXPORT_COMPILE_COMMANDS=OFF"}

\* C18 witness: a run without the flag ended with a compile_commands.json in
\* the build directory and none in the project root.
C18_Witness ==
    /\ pc = "done"
    /\ ~config.export_compile_commands
    /\ ccBuild # NoneVal
    /\ ccRoot = NoneVal

====
